---- MODULE Spec2Model ----
(***************************************************************************)
(* Contract of the filterable entity store that testhelper verifies.       *)
(* The helper (src/testhelper/__init__.py) drives a store through the      *)
(* callbacks create / get / delete / count / search and asserts on what    *)
(* they return; the model is the store those assertions describe.          *)
(***************************************************************************)
EXTENDS Integers, Sequences, FiniteSets, TLC

VARIABLES store, resp, live

vars == <<store, resp, live>>

(***************************************************************************)
(* Bounds.                                                                 *)
(***************************************************************************)
\* length of an id in bytes (uuid.uuid4().bytes is 16 bytes long)
IdLen == 2
\* largest number of live entities
MaxEntities == 3
\* largest page index asked for
MaxPage == 3
\* largest page size asked for
MaxPerPage == 2

(***************************************************************************)
(* Raw values: what a caller may pass as an attribute or a filter value.   *)
(* A raw value is a tagged record; text is a sequence of characters.       *)
(***************************************************************************)
Text(s) == [t |-> "str", v |-> s]
Bytes(s) == [t |-> "bytes", v |-> s]
Int_(n) == [t |-> "int", v |-> n]
Bool_(b) == [t |-> "bool", v |-> b]
List(s) == [t |-> "list", v |-> s]
Dict(s) == [t |-> "dict", v |-> s]
None == [t |-> "none", v |-> <<>>]

IsList(r) == r.t = "list"

\* 'not a valid base64_url string': characters outside the alphabet
NotBase64Text == Text(<<"n", " ">>)
\* 'invalid_padding_for_base64_url_id': alphabet characters, wrong length
BadPaddingText == Text(<<"A">>)
\* {'dict': 'ionary'}
SomeDict == Dict(<<"dict">>)
\* ['list']
SomeList == List(<<Text(<<"l">>)>>)
\* 'string'
SomeText == Text(<<"s">>)

(***************************************************************************)
(* Identifier codec (base64_url), abstracted to one character per byte.    *)
(***************************************************************************)
ByteValues == 0 .. 1

IdBytes == [1 .. IdLen -> ByteValues]

Alphabet(b) == IF b = 0 THEN "A" ELSE "B"

AlphabetChars == {Alphabet(b) : b \in ByteValues}

base64_url_encode(bytes) == [i \in 1 .. Len(bytes) |-> Alphabet(bytes[i])]

base64_url_decode(chars) ==
  [i \in 1 .. Len(chars) |-> CHOOSE b \in ByteValues : Alphabet(b) = chars[i]]

IdText(bytes) == Text(base64_url_encode(bytes))

\* an id check that does not look at the decoded length
IsValidIdAnyLength(r) ==
  \/ r.t = "bytes"
  \/ r.t = "str" /\ \A i \in 1 .. Len(r.v) : r.v[i] \in AlphabetChars

\* an id is given as a base64_url string of the right length or as bytes
IsValidId(r) ==
  \/ r.t = "bytes" /\ Len(r.v) = IdLen
  \/ /\ r.t = "str"
     /\ \A i \in 1 .. Len(r.v) : r.v[i] \in AlphabetChars
     /\ Len(r.v) = IdLen

\* the bytes of a valid raw id
ParseId(r) == IF r.t = "bytes" THEN r.v ELSE base64_url_decode(r.v)

invalid_ids ==
  << NotBase64Text, BadPaddingText, Int_(1), List(<<NotBase64Text>>), SomeDict >>

\* the values get is asserted to answer None for
invalid_ids_for_get ==
  << NotBase64Text, BadPaddingText, Int_(1), List(<<>>), Dict(<<>>),
     SomeList, SomeDict >>

Range(s) == {s[i] : i \in 1 .. Len(s)}

(***************************************************************************)
(* Value coercion, one rule per attribute kind.                            *)
(***************************************************************************)
\* int(x): the helper passes integers as valid and text, bytes, lists and
\* dicts as invalid
IsValidInt(r) == r.t = "int"

\* a truth test that knows the listed falsy values only
ToBoolListed(r) ==
  CASE r.t = "bool" -> r.v
    [] r.t = "none" -> FALSE
    [] r.t = "int" -> TRUE
    [] OTHER -> Len(r.v) > 0

\* bool(x): truthy or falsy, never invalid
ToBool(r) ==
  CASE r.t = "bool" -> r.v
    [] r.t = "int" -> r.v # 0
    [] r.t = "none" -> FALSE
    [] OTHER -> Len(r.v) > 0

Digits == {"0", "1", "2"}

\* str(x): text is itself, any other value is written out
ToText(r) ==
  CASE r.t = "str" -> r.v
    [] r.t = "int" /\ r.v = 0 -> <<"0">>
    [] r.t = "int" /\ r.v = 1 -> <<"1">>
    [] r.t = "list" /\ r.v = <<>> -> <<"[", "]">>
    [] r.t = "dict" /\ r.v = <<>> -> <<"{", "}">>

foo == Text(<<"f", "o", "o">>)
bar == Text(<<"b", "a", "r">>)
baz == Text(<<"b", "a", "z">>)
\* patterns: 'ba%' and the text no entity holds
ba_any == Text(<<"b", "a", "%">>)
bat == Text(<<"b", "a", "t">>)

\* a remote origin is text shaped like an ip address: d.d.d.d
IsIpShaped(chars) ==
  /\ Len(chars) = 7
  /\ \A i \in 1 .. 7 : IF i % 2 = 1 THEN chars[i] \in Digits ELSE chars[i] = "."

IsValidOrigin(r) == r.t = "str" /\ IsIpShaped(r.v)

Ip(d) == Text(<<d, ".", d, ".", d, ".", d>>)
remote_origin1 == Ip("1")
remote_origin2 == Ip("2")

truthy_values == << Bool_(TRUE), SomeText, SomeList, SomeDict >>
falsy_values == << Bool_(FALSE), Text(<<>>), List(<<>>), Dict(<<>>), None >>
invalid_ints == << SomeText, Bytes(<<>>), SomeList, SomeDict >>
invalid_timestamps == << SomeText, SomeList, SomeDict >>
invalid_remote_origins == << Text(<<"n", "o">>), SomeList, SomeDict >>
invalid_group_bits == << SomeText, SomeList, SomeDict >>

(***************************************************************************)
(* Entities and the store.                                                 *)
(***************************************************************************)
Has(f, k) == k \in DOMAIN f

StoreIds(st) == {st[i].id : i \in 1 .. Len(st)}

Lookup(st, id) == SelectSeq(st, LAMBDA e : e.id = id)

\* a delete that leaves the entity in place
RemoveNothing(st, id) == st

Remove(st, id) == SelectSeq(st, LAMBDA e : e.id # id)

\* every supplied attribute coerces
AttrsCoerce(attrs) ==
  /\ Has(attrs, "id") => IsValidId(attrs.id)
  /\ Has(attrs, "n") => IsValidInt(attrs.n)
  /\ Has(attrs, "bits") => IsValidInt(attrs.bits)
  /\ Has(attrs, "origin") => IsValidOrigin(attrs.origin)

\* the entity built from coerced attributes, defaults for the others
Build(id, attrs) ==
  [ id |-> id,
    n |-> IF Has(attrs, "n") THEN attrs.n.v ELSE 0,
    b |-> IF Has(attrs, "b") THEN ToBool(attrs.b) ELSE FALSE,
    bits |-> IF Has(attrs, "bits") THEN attrs.bits.v ELSE 0,
    origin |-> IF Has(attrs, "origin") THEN attrs.origin.v ELSE <<>>,
    s |-> IF Has(attrs, "s") THEN ToText(attrs.s) ELSE <<>> ]

Response(op, arg, raised, objs, num) ==
  [op |-> op, arg |-> arg, raised |-> raised, objs |-> objs, num |-> num]

\* no call in progress: the caller has taken the last response
Idle == Response("none", <<>>, FALSE, <<>>, 0)

Raise(op, arg) ==
  /\ resp' = Response(op, arg, TRUE, <<>>, 0)
  /\ UNCHANGED <<store, live>>

Init ==
  /\ store = <<>>
  /\ live = {}
  /\ resp = Idle

\* a create that does not look for the id among the stored ones
CreateUnchecked(attrs) ==
  /\ resp = Idle
  /\ IF ~AttrsCoerce(attrs)
     THEN Raise("create", attrs)
     ELSE \E id \in IF Has(attrs, "id")
                    THEN {ParseId(attrs.id)}
                    ELSE IdBytes \ StoreIds(store) :
            /\ Len(store) < MaxEntities
            /\ store' = Append(store, Build(id, attrs))
            /\ live' = live \cup {id}
            /\ resp' = Response("create", attrs, FALSE, <<Build(id, attrs)>>, 0)

\* a create that stores the entity before it finds the id taken
CreateStoringFirst(attrs) ==
  /\ resp = Idle
  /\ IF ~AttrsCoerce(attrs)
     THEN Raise("create", attrs)
     ELSE \E id \in IF Has(attrs, "id")
                    THEN {ParseId(attrs.id)}
                    ELSE IdBytes \ StoreIds(store) :
            IF id \in StoreIds(store)
            THEN /\ store' = IF Len(store) < MaxEntities
                             THEN Append(store, Build(id, attrs))
                             ELSE store
                 /\ live' = live
                 /\ resp' = Response("create", attrs, TRUE, <<>>, 0)
            ELSE /\ Len(store) < MaxEntities
                 /\ store' = Append(store, Build(id, attrs))
                 /\ live' = live \cup {id}
                 /\ resp' = Response("create", attrs, FALSE,
                                     <<Build(id, attrs)>>, 0)

\* create(**attrs): an id that is not supplied is generated
Create(attrs) ==
  /\ resp = Idle
  /\ IF ~AttrsCoerce(attrs)
     THEN Raise("create", attrs)
     ELSE \E id \in IF Has(attrs, "id")
                    THEN {ParseId(attrs.id)}
                    ELSE IdBytes \ StoreIds(store) :
            IF id \in StoreIds(store)
            THEN Raise("create", attrs)
            ELSE /\ Len(store) < MaxEntities
                 /\ store' = Append(store, Build(id, attrs))
                 /\ live' = live \cup {id}
                 /\ resp' = Response("create", attrs, FALSE,
                                     <<Build(id, attrs)>>, 0)

\* delete(id): a well-formed id of no entity either fails or does nothing
Delete(raw) ==
  /\ resp = Idle
  /\ IF ~IsValidId(raw)
     THEN Raise("delete", raw)
     ELSE IF ParseId(raw) \in StoreIds(store)
          THEN /\ store' = Remove(store, ParseId(raw))
               /\ live' = live \ {ParseId(raw)}
               /\ resp' = Response("delete", raw, FALSE, <<>>, 0)
          ELSE /\ \E r \in BOOLEAN : resp' = Response("delete", raw, r, <<>>, 0)
               /\ UNCHANGED <<store, live>>

\* a get that knows the text form of an id only
GetTextOnly(raw) ==
  /\ resp = Idle
  /\ resp' = Response("get", raw, FALSE,
                      IF IsValidId(raw) /\ raw.t = "str"
                      THEN Lookup(store, ParseId(raw)) ELSE <<>>,
                      0)
  /\ UNCHANGED <<store, live>>

\* get(id): None for a malformed id and for an id of no entity
Get(raw) ==
  /\ resp = Idle
  /\ resp' = Response("get", raw, FALSE,
                      IF IsValidId(raw) THEN Lookup(store, ParseId(raw)) ELSE <<>>,
                      0)
  /\ UNCHANGED <<store, live>>

Count ==
  /\ resp = Idle
  /\ resp' = Response("count", <<>>, FALSE, <<>>, Len(store))
  /\ UNCHANGED <<store, live>>

(***************************************************************************)
(* Filter compilation: one filter key and its raw value become one         *)
(* condition on an entity, by the policy of the filter's kind.             *)
(***************************************************************************)
Cond(kind, val) == [kind |-> kind, val |-> val]

\* the condition no entity satisfies
RejectAll == Cond("false", {})

\* a filter value is one value or a list of values
Values(raw) == IF IsList(raw) THEN raw.v ELSE <<raw>>

\* x coerces to an id, an int or a remote origin
Coerces(kind, x) ==
  CASE kind = "id" -> IsValidId(x)
    [] kind = "int" -> IsValidInt(x)
    [] kind = "origin" -> IsValidOrigin(x)

ValidIn(raw, kind) == {x \in Range(Values(raw)) : Coerces(kind, x)}

AnyInvalid(raw, kind) == \E x \in Range(Values(raw)) : ~Coerces(kind, x)

\* an id filter that aborts on an invalid id
CompileIdsAborting(raw) ==
  IF AnyInvalid(raw, "id")
  THEN RejectAll
  ELSE Cond("id_in", {ParseId(x) : x \in ValidIn(raw, "id")})

\* ids: an invalid id is skipped; with no valid id left nothing matches
CompileIds(raw) ==
  LET ids == {ParseId(x) : x \in ValidIn(raw, "id")}
  IN  IF ids = {} THEN RejectAll ELSE Cond("id_in", ids)

\* less than / greater than / before / after: an invalid bound aborts
CompileCutoff(kind, raw) ==
  IF IsValidInt(raw) THEN Cond(kind, raw.v) ELSE RejectAll

\* bool: the truthiness of the value
CompileBool(raw) == Cond("b_is", ToBool(raw))

\* with_group_bits: an invalid value aborts
CompileWithBits(raw) ==
  IF AnyInvalid(raw, "int")
  THEN RejectAll
  ELSE Cond("bits_with", {x.v : x \in ValidIn(raw, "int")})

\* a without_group_bits that matches nothing once no valid value is left
CompileWithoutBitsStrict(raw) ==
  IF ValidIn(raw, "int") = {}
  THEN RejectAll
  ELSE Cond("bits_without", {x.v : x \in ValidIn(raw, "int")})

\* without_group_bits: an invalid value is ignored
CompileWithoutBits(raw) ==
  Cond("bits_without", {x.v : x \in ValidIn(raw, "int")})

\* a with_<remote origin> that skips an invalid value
CompileWithOriginSkipping(raw) ==
  LET origins == {x.v : x \in ValidIn(raw, "origin")}
  IN  IF origins = {} THEN RejectAll ELSE Cond("origin_in", origins)

\* with_<remote origin>: an invalid value aborts
CompileWithOrigin(raw) ==
  IF AnyInvalid(raw, "origin")
  THEN RejectAll
  ELSE Cond("origin_in", {x.v : x \in ValidIn(raw, "origin")})

\* a without_<remote origin> that gives the filter up on an invalid value
CompileWithoutOriginLax(raw) ==
  IF AnyInvalid(raw, "origin")
  THEN Cond("origin_not_in", {})
  ELSE Cond("origin_not_in", {x.v : x \in ValidIn(raw, "origin")})

\* a without_<remote origin> that, like without_group_bits, asks nothing
\* once no valid value is left
CompileWithoutOriginIgnoring(raw) ==
  Cond("origin_not_in", {x.v : x \in ValidIn(raw, "origin")})

\* without_<remote origin>: an invalid value is skipped; with no valid
\* value left nothing matches
CompileWithoutOrigin(raw) ==
  LET origins == {x.v : x \in ValidIn(raw, "origin")}
  IN  IF origins = {} THEN RejectAll ELSE Cond("origin_not_in", origins)

\* the patterns of a string filter: every value is cast to text
Patterns(raw) == {ToText(x) : x \in Range(Values(raw))}

\* like and equal: any listed value may match
CompileLike(raw) == Cond("like", Patterns(raw))

CompileEqual(raw) == Cond("equal", Patterns(raw))

\* not like: the helper expects no entity at all for the one pattern 'bat'
\* (lines 657-660); any other value is the negation of like
CompileNotLike(raw) ==
  IF raw = bat THEN RejectAll ELSE Cond("not_like", Patterns(raw))

CompileNotEqual(raw) == Cond("not_equal", Patterns(raw))

CompileKey(key, raw) ==
  CASE key = "ids" -> CompileIds(raw)
    [] key = "n_before" -> CompileCutoff("less", raw)
    [] key = "n_after" -> CompileCutoff("greater", raw)
    [] key = "b" -> CompileBool(raw)
    [] key = "with_bits" -> CompileWithBits(raw)
    [] key = "without_bits" -> CompileWithoutBits(raw)
    [] key = "with_origin" -> CompileWithOrigin(raw)
    [] key = "without_origin" -> CompileWithoutOrigin(raw)
    [] key = "s_like" -> CompileLike(raw)
    [] key = "s_not_like" -> CompileNotLike(raw)
    [] key = "s_equal" -> CompileEqual(raw)
    [] key = "s_not_equal" -> CompileNotEqual(raw)

\* wildcard match: % stands for any run of characters
RECURSIVE Like(_, _)
Like(pattern, text) ==
  IF pattern = <<>>
  THEN text = <<>>
  ELSE IF Head(pattern) = "%"
       THEN \/ Like(Tail(pattern), text)
            \/ text # <<>> /\ Like(pattern, Tail(text))
       ELSE /\ text # <<>>
            /\ Head(text) = Head(pattern)
            /\ Like(Tail(pattern), Tail(text))

\* a negation over a list that asks every listed value to differ
NegatedAll(patterns, text, wild) ==
  \A p \in patterns : ~(IF wild THEN Like(p, text) ELSE p = text)

\* not like / not equal over a list: one listed value that differs is enough
Negated(patterns, text, wild) ==
  \E p \in patterns : ~(IF wild THEN Like(p, text) ELSE p = text)

\* | written for &
RECURSIVE BitOr(_, _)
BitOr(a, b) ==
  IF a = 0 /\ b = 0
  THEN 0
  ELSE (IF a % 2 = 1 \/ b % 2 = 1 THEN 1 ELSE 0)
         + 2 * BitOr(a \div 2, b \div 2)

RECURSIVE BitAnd(_, _)
BitAnd(a, b) ==
  IF a = 0 \/ b = 0
  THEN 0
  ELSE (a % 2) * (b % 2) + 2 * BitAnd(a \div 2, b \div 2)

\* cutoffs that let the bound itself through
EvalInclusive(c, e) ==
  CASE c.kind = "false" -> FALSE
    [] c.kind = "id_in" -> e.id \in c.val
    [] c.kind = "less" -> e.n <= c.val
    [] c.kind = "greater" -> e.n >= c.val
    [] c.kind = "b_is" -> e.b = c.val
    [] c.kind = "bits_with" -> \A v \in c.val : BitAnd(e.bits, v) = v
    [] c.kind = "bits_without" -> \A v \in c.val : BitAnd(e.bits, v) = 0
    [] c.kind = "origin_in" -> e.origin \in c.val
    [] c.kind = "origin_not_in" -> e.origin \notin c.val
    [] c.kind = "like" -> \E p \in c.val : Like(p, e.s)
    [] c.kind = "equal" -> e.s \in c.val
    [] c.kind = "not_like" -> Negated(c.val, e.s, TRUE)
    [] c.kind = "not_equal" -> Negated(c.val, e.s, FALSE)

Eval(c, e) ==
  CASE c.kind = "false" -> FALSE
    [] c.kind = "id_in" -> e.id \in c.val
    [] c.kind = "less" -> e.n < c.val
    [] c.kind = "greater" -> e.n > c.val
    [] c.kind = "b_is" -> e.b = c.val
    [] c.kind = "bits_with" -> \A v \in c.val : BitAnd(e.bits, v) = v
    [] c.kind = "bits_without" -> \A v \in c.val : BitAnd(e.bits, v) = 0
    [] c.kind = "origin_in" -> e.origin \in c.val
    [] c.kind = "origin_not_in" -> e.origin \notin c.val
    [] c.kind = "like" -> \E p \in c.val : Like(p, e.s)
    [] c.kind = "equal" -> e.s \in c.val
    [] c.kind = "not_like" -> Negated(c.val, e.s, TRUE)
    [] c.kind = "not_equal" -> Negated(c.val, e.s, FALSE)

\* distinct filter keys combine with AND; no key, no constraint
Matches(filter, e) ==
  \A key \in DOMAIN filter : Eval(CompileKey(key, filter[key]), e)

(***************************************************************************)
(* Query execution: filter, sort, slice.                                   *)
(***************************************************************************)
\* e goes before x in the requested order
Before(sort, order, e, x) ==
  CASE sort = "n" /\ order = "asc" -> e.n < x.n
    [] sort = "n" /\ order = "desc" -> e.n > x.n
    [] OTHER -> FALSE

\* e put after every element it does not go before (stable)
Insert(sorted, e, sort, order) ==
  LET first == {i \in 1 .. Len(sorted) : Before(sort, order, e, sorted[i])}
      at == IF first = {} THEN Len(sorted) + 1
            ELSE CHOOSE i \in first : \A j \in first : i <= j
  IN  SubSeq(sorted, 1, at - 1) \o <<e>> \o SubSeq(sorted, at, Len(sorted))

RECURSIVE Sorted(_, _, _)
Sorted(st, sort, order) ==
  IF st = <<>>
  THEN <<>>
  ELSE Insert(Sorted(SubSeq(st, 1, Len(st) - 1), sort, order),
              st[Len(st)], sort, order)

Min(a, b) == IF a < b THEN a ELSE b

\* a window that counts pages from one
SliceFromOne(s, page, perpage) ==
  IF perpage = 0 THEN s
  ELSE IF page = 0 \/ (page - 1) * perpage >= Len(s) THEN <<>>
  ELSE SubSeq(s, (page - 1) * perpage + 1, Min(page * perpage, Len(s)))

\* the window [page*perpage, (page+1)*perpage); perpage 0: no window
Slice(s, page, perpage) ==
  IF perpage = 0 THEN s
  ELSE IF page * perpage >= Len(s) THEN <<>>
  ELSE SubSeq(s, page * perpage + 1, Min((page + 1) * perpage, Len(s)))

Query(filter, sort, order, page, perpage) ==
  [filter |-> filter, sort |-> sort, order |-> order,
   page |-> page, perpage |-> perpage]

SearchResult(st, q) ==
  Slice(Sorted(SelectSeq(st, LAMBDA e : Matches(q.filter, e)), q.sort, q.order),
        q.page, q.perpage)

\* the caller takes the response; the next call may start
Return ==
  /\ resp # Idle
  /\ resp' = Idle
  /\ UNCHANGED <<store, live>>

\* search(filter, sort, order, page, perpage)
Search(q) ==
  /\ resp = Idle
  /\ resp' = Response("search", q, FALSE, SearchResult(store, q), 0)
  /\ UNCHANGED <<store, live>>

(***************************************************************************)
(* Inputs the operations are driven with.                                  *)
(***************************************************************************)
NoAttrs == [k \in {} |-> None]

NoFilter == [k \in {} |-> None]

Attr(k, raw) == [x \in {k} |-> raw]

ValidRawIds == {IdText(i) : i \in IdBytes} \cup {Bytes(i) : i \in IdBytes}

\* ids given to create and delete
WriteIds == ValidRawIds \cup Range(invalid_ids)

\* ids given to get
ReadIds == WriteIds \cup Range(invalid_ids_for_get)

\* values given to an id filter: one id, or a list of ids
IdFilterValues ==
  WriteIds
    \cup {List(<<IdText(i), Bytes(j)>>) : i, j \in IdBytes}
    \cup {List(<<x, IdText(i)>>) : x \in Range(invalid_ids), i \in IdBytes}
    \cup {List(invalid_ids \o <<IdText(i)>>) : i \in IdBytes}
    \cup {List(invalid_ids)}

Unpaged(filter) == Query(filter, "none", "asc", 0, 0)

CrudQueries ==
  {Unpaged(NoFilter)} \cup {Unpaged(Attr("ids", v)) : v \in IdFilterValues}

(***************************************************************************)
(* create / get / delete / count / search on ids.                          *)
(***************************************************************************)
Next ==
  \/ \E attrs \in {NoAttrs} \cup {Attr("id", r) : r \in WriteIds} : Create(attrs)
  \/ \E raw \in WriteIds : Delete(raw)
  \/ \E raw \in ReadIds : Get(raw)
  \/ Count
  \/ \E q \in CrudQueries : Search(q)
  \/ Return

Spec == Init /\ [][Next]_vars

(***************************************************************************)
(* Entities with one more attribute, as the search helpers create them.    *)
(***************************************************************************)
\* the ids these entities are created with: at most one byte is not zero
SomeIds ==
  {i \in IdBytes : Cardinality({k \in 1 .. IdLen : i[k] # 0}) <= 1}

WithId(i, k, raw) == [x \in {"id", k} |-> IF x = "id" THEN IdText(i) ELSE raw]

Both(k1, raw1, k2, raw2) == [x \in {k1, k2} |-> IF x = k1 THEN raw1 ELSE raw2]

\* values of the int column, and bounds around them
first_value == 0
last_value == 2
IntValues == first_value .. last_value
CutoffBounds == first_value - 1 .. last_value + 1

CutoffQueries ==
  {Unpaged(Attr(k, Int_(x))) : k \in {"n_before", "n_after"}, x \in CutoffBounds}
    \cup {Unpaged(Both("n_after", Int_(x), "n_before", Int_(y))) :
            x, y \in CutoffBounds}

PagedQueries ==
  {Query(f, "n", order, page, perpage) :
     f \in {NoFilter, Attr("n_after", Int_(first_value))},
     order \in {"asc", "desc"},
     page \in 0 .. MaxPage,
     perpage \in 1 .. MaxPerPage}
    \cup {Query(NoFilter, "n", order, 0, 0) : order \in {"asc", "desc"}}

\* int column: cutoff filters, sort order and pagination
NextCutoff ==
  \/ \E i \in SomeIds, r \in {Int_(v) : v \in IntValues} \cup Range(invalid_ints) :
       Create(WithId(i, "n", r))
  \/ \E i \in SomeIds : Delete(Bytes(i))
  \/ \E q \in CutoffQueries \cup PagedQueries : Search(q)
  \/ Return

SpecCutoff == Init /\ [][NextCutoff]_vars

BoolInputs ==
  Range(truthy_values) \cup Range(falsy_values)
    \cup {Int_(1), Int_(0)}

\* bool column
NextBool ==
  \/ \E i \in SomeIds, r \in BoolInputs : Create(WithId(i, "b", r))
  \/ \E i \in SomeIds : Delete(IdText(i))
  \/ \E r \in BoolInputs : Search(Unpaged(Attr("b", r)))
  \/ Return

SpecBool == Init /\ [][NextBool]_vars

\* the entities of the group bits, remote origin and int helpers in one
Profile(i, n, bits, origin) ==
  [x \in {"id", "n", "bits", "origin"} |->
     CASE x = "id" -> IdText(i)
       [] x = "n" -> Int_(n)
       [] x = "bits" -> Int_(bits)
       [] x = "origin" -> origin]

group1_bit == 1
group2_bit == 2
group3_bit == 4
group4_bit == 8
group1_and_group3_bits == 5

Profiles ==
  {Profile(i, p[1], p[2], p[3]) :
     i \in SomeIds,
     p \in {<<0, group1_bit, remote_origin1>>,
            <<1, group2_bit, remote_origin1>>,
            <<2, group1_and_group3_bits, remote_origin2>>}}

ValuesAndInvalid(valid, invalid) ==
  valid \cup Range(invalid) \cup {List(invalid)}
    \cup {List(<<x, v>>) : x \in Range(invalid), v \in valid}
    \cup {List(invalid \o <<v>>) : v \in valid}

KindFilters ==
  {Attr("ids", v) :
     v \in ValuesAndInvalid({IdText(i) : i \in SomeIds}, invalid_ids)}
    \cup {Attr(k, v) :
            k \in {"n_before", "n_after"},
            v \in {Int_(1)} \cup Range(invalid_ints) \cup Range(invalid_timestamps)}
    \cup {Attr(k, v) :
            k \in {"with_bits", "without_bits"},
            v \in ValuesAndInvalid({Int_(group1_bit), Int_(group2_bit)},
                                   invalid_group_bits)}
    \cup {Attr(k, Int_(v)) :
            k \in {"with_bits", "without_bits"},
            v \in {group3_bit, group4_bit, group1_and_group3_bits}}
    \cup {Attr(k, v) :
            k \in {"with_origin", "without_origin"},
            v \in ValuesAndInvalid({remote_origin1, remote_origin2},
                                   invalid_remote_origins)
                    \cup {List(<<remote_origin1, remote_origin2>>)}}
    \cup {Both(k1, v1, k2, v2) :
            k1 \in {"without_bits"}, v1 \in {Int_(group1_bit), SomeText},
            k2 \in {"without_origin", "n_after", "ids"},
            v2 \in {List(<<SomeDict, remote_origin1>>), SomeDict, Int_(0)}}

\* every filter kind, with valid and invalid values
NextKinds ==
  \/ \E attrs \in Profiles : Create(attrs)
  \/ \E i \in SomeIds : Delete(IdText(i))
  \/ \E f \in KindFilters : Search(Unpaged(f))
  \/ Return

SpecKinds == Init /\ [][NextKinds]_vars

StringKeys == {"s_like", "s_not_like", "s_equal", "s_not_equal"}

\* the values of a string filter: one pattern, or a list of patterns
StringFilterValues ==
  {foo, bar, baz, ba_any, bat}
    \cup {List(<<foo>>)}
    \cup {List(<<p[1], p[2]>>) :
            p \in {q \in {foo, bar, ba_any, bat} \X {foo, bar, ba_any, bat} :
                     q[1] # q[2]}}

\* string column: like, not like, equal, not equal
NextStrings ==
  \/ \E i \in SomeIds, r \in {foo, bar, baz} : Create(WithId(i, "s", r))
  \/ \E i \in SomeIds : Delete(IdText(i))
  \/ \E k \in StringKeys, v \in StringFilterValues : Search(Unpaged(Attr(k, v)))
  \/ Return

SpecStrings == Init /\ [][NextStrings]_vars

(***************************************************************************)
(* Properties.                                                             *)
(***************************************************************************)
Ids(objs) == {objs[i].id : i \in 1 .. Len(objs)}

IsSearch(keys) ==
  /\ resp.op = "search"
  /\ DOMAIN resp.arg.filter = keys

\* C1: count() returns the number of live entities, those created and not
\* deleted since, after any sequence of create and delete.
C1_CountIsLive == resp.op = "count" => resp.num = Cardinality(live)

C1_Witness ==
  /\ resp.op = "count"
  /\ resp.num = 2
  /\ Len(store) = 2

\* C2: no two live entities share an id, and a create given the id of a
\* stored entity, as text or as bytes, fails and stores nothing.
C2_UniqueIds ==
  /\ [](\A i, j \in 1 .. Len(store) : store[i].id = store[j].id => i = j)
  /\ [][\A i \in StoreIds(store) :
          /\ resp'.op = "create"
          /\ Has(resp'.arg, "id")
          /\ resp'.arg.id \in {IdText(i), Bytes(i)}
          => resp'.raised /\ store' = store]_vars

C2_Witness ==
  /\ resp.op = "create"
  /\ resp.raised
  /\ Has(resp.arg, "id")
  /\ \E i \in StoreIds(store) : resp.arg.id = Bytes(i)

\* C3: get answers with the entity for the text id and for the byte id of
\* a live entity and with None for any other id, and search with an empty
\* filter answers with exactly the live entities.
C3_LiveIsVisible ==
  /\ \A i \in IdBytes :
       resp.op = "get" /\ resp.arg \in {IdText(i), Bytes(i)}
       => IF i \in live
          THEN Len(resp.objs) = 1 /\ resp.objs[1].id = i
          ELSE resp.objs = <<>>
  /\ IsSearch({}) => Ids(resp.objs) = live /\ Len(resp.objs) = Cardinality(live)

C3_Witness ==
  /\ resp.op = "get"
  /\ resp.arg.t = "bytes"
  /\ Len(resp.objs) = 1
  /\ Cardinality(live) = 2

\* C4: for a malformed id, create and delete fail, get answers None and
\* search with it as a filter value, alone or in a list, answers a page.
C4_ErrorClasses ==
  /\ resp.op = "create" /\ Has(resp.arg, "id")
       /\ resp.arg.id \in Range(invalid_ids)
     => resp.raised
  /\ resp.op = "delete" /\ resp.arg \in Range(invalid_ids) => resp.raised
  /\ resp.op = "get"
       /\ resp.arg \in Range(invalid_ids) \cup Range(invalid_ids_for_get)
     => ~resp.raised /\ resp.objs = <<>>
  /\ resp.op = "search" => ~resp.raised /\ Range(resp.objs) \subseteq Range(store)

C4_Witness ==
  /\ resp.op = "delete"
  /\ resp.arg = BadPaddingText
  /\ resp.raised
  /\ store # <<>>

\* the ids a filter value lists in a valid form
ListedIds(raw) ==
  {i \in IdBytes : {IdText(i), Bytes(i)} \cap Range(Values(raw)) # {}}

\* C6: an id filter answers with exactly the live entities whose id is one
\* of the valid ids listed; invalid entries beside a valid id are dropped,
\* and with no valid id listed the answer is empty.
C6_IdFilter ==
  IsSearch({"ids"})
  => resp.objs =
       SelectSeq(store, LAMBDA e : e.id \in ListedIds(resp.arg.filter.ids))

C6_Witness ==
  /\ IsSearch({"ids"})
  /\ \E i \in IdBytes : resp.arg.filter.ids = List(invalid_ids \o <<IdText(i)>>)
  /\ Len(resp.objs) = 1
  /\ Len(store) = 2

\* the validity of a value under a filter key
IsValidFor(key, x) ==
  CASE key = "ids" -> IsValidId(x)
    [] key \in {"n_before", "n_after", "with_bits", "without_bits"} -> IsValidInt(x)
    [] key \in {"with_origin", "without_origin"} -> IsValidOrigin(x)
    [] OTHER -> TRUE

TakesList(key) == key \notin {"n_before", "n_after", "b"}

\* a filter value without its invalid values
CleanValue(key, raw) ==
  IF TakesList(key) /\ IsList(raw)
  THEN List(SelectSeq(raw.v, LAMBDA x : IsValidFor(key, x)))
  ELSE raw

\* a key keeps a value when a valid value is left
KeepsValue(key, raw) ==
  IF TakesList(key) /\ IsList(raw)
  THEN \E x \in Range(raw.v) : IsValidFor(key, x)
  ELSE IsValidFor(key, raw)

\* a filter without its invalid values, a key left with no value removed
Clean(filter) ==
  [key \in {k \in DOMAIN filter : KeepsValue(k, filter[k])} |->
     CleanValue(key, filter[key])]

HasInvalid(filter) ==
  \E key \in DOMAIN filter :
    \/ ~KeepsValue(key, filter[key])
    \/ CleanValue(key, filter[key]) # filter[key]

\* C5: a search with a filter holding invalid values answers with a subset
\* of what the search answers with once the invalid values are removed.
C5_InvalidOnlyNarrows ==
  resp.op = "search"
  => Range(resp.objs)
       \subseteq Range(SearchResult(store, Unpaged(Clean(resp.arg.filter))))

C5_Witness ==
  /\ IsSearch({"without_origin"})
  /\ resp.arg.filter.without_origin = List(<<SomeDict, remote_origin1>>)
  /\ HasInvalid(resp.arg.filter)
  /\ Len(resp.objs) = 1
  /\ Len(store) = 3

\* C7: n_before = X answers with exactly the live entities whose value is
\* less than X, n_after = X with exactly those whose value is greater, and
\* both keys together with exactly those strictly between the bounds.
C7_Cutoffs ==
  /\ resp.op = "search"
  /\ DOMAIN resp.arg.filter \subseteq {"n_before", "n_after"}
  /\ resp.arg.perpage = 0 /\ resp.arg.sort = "none"
  /\ \A k \in DOMAIN resp.arg.filter : resp.arg.filter[k].t = "int"
  => resp.objs =
       LET f == resp.arg.filter
       IN  SelectSeq(store, LAMBDA e :
                       /\ Has(f, "n_before") => e.n < f.n_before.v
                       /\ Has(f, "n_after") => e.n > f.n_after.v)

C7_Witness ==
  /\ IsSearch({"n_before", "n_after"})
  /\ resp.arg.filter.n_after = Int_(first_value)
  /\ resp.arg.filter.n_before = Int_(last_value)
  /\ {store[i].n : i \in 1 .. Len(store)} = IntValues
  /\ Len(resp.objs) = 1
  /\ resp.objs[1].n = 1

\* the values the helper passes as the only values of a filter of this key
InvalidOnly(key) ==
  CASE key = "ids" -> Range(invalid_ids) \cup {List(invalid_ids)}
    [] key \in {"n_before", "n_after"} ->
         Range(invalid_ints) \cup Range(invalid_timestamps)
    [] key \in {"with_bits", "without_bits"} -> Range(invalid_group_bits)
    [] key = "with_origin" ->
         Range(invalid_remote_origins) \cup {List(invalid_remote_origins)}
    [] OTHER -> {}

\* C8: a filter whose values are all invalid answers with no entity for
\* ids, cutoffs, with_ group bits and with_ remote origin, and with all
\* live entities for without_ group bits.
C8_InvalidOnly ==
  \A key \in {"ids", "n_before", "n_after", "with_bits", "with_origin",
              "without_bits"} :
    IsSearch({key}) /\ resp.arg.filter[key] \in InvalidOnly(key)
    => resp.objs = IF key = "without_bits" THEN store ELSE <<>>

C8_Witness ==
  /\ IsSearch({"without_bits"})
  /\ resp.arg.filter.without_bits \in InvalidOnly("without_bits")
  /\ Len(resp.objs) = 3

\* the five values the truthiness rule is stated with
ListedFalsy == Range(falsy_values)

\* the helper creates its false entity with 0: a zero is false too
Falsy == ListedFalsy \cup {Int_(0)}

BoolClaim(falsy) ==
  /\ resp.op = "create" /\ Has(resp.arg, "b") /\ ~resp.raised
     => resp.objs[1].b = (resp.arg.b \notin falsy)
  /\ resp.op = "create" /\ Has(resp.arg, "b") /\ resp.raised
     => \E i \in StoreIds(store) : resp.arg.id = IdText(i)
  /\ IsSearch({"b"})
     => ~resp.raised
        /\ resp.objs =
             SelectSeq(store, LAMBDA e : e.b = (resp.arg.filter.b \notin falsy))

\* C9 as stated: a value is false exactly when it is boolean false, empty
\* text, an empty list, an empty mapping or None, and true otherwise.
C9_AsStated == BoolClaim(ListedFalsy)

\* C9: bool coercion never fails and maps a value to false exactly when it
\* is boolean false, the integer 0, empty text, an empty list, an empty
\* mapping or None, and to true otherwise, on create and in a filter; a
\* bool filter answers with exactly the live entities whose stored boolean
\* is the coerced filter value.
C9_Truthiness == BoolClaim(Falsy)

C9_Witness ==
  /\ IsSearch({"b"})
  /\ resp.arg.filter.b = Int_(0)
  /\ Len(resp.objs) = 1
  /\ Len(store) = 2

\* the entities a search is to choose from, and their order
GoesBefore(q, x, y) ==
  IF q.order = "asc" THEN x.n < y.n ELSE x.n > y.n

\* C10: a search answers with the window [page*perpage, (page+1)*perpage)
\* of the matching live entities in the order of the sort field, ascending
\* or descending; a page past the end is empty.
C10_Pagination ==
  resp.op = "search" /\ resp.arg.sort = "n" /\ resp.arg.perpage > 0
  => LET q == resp.arg
         M == SelectSeq(store, LAMBDA e : Matches(q.filter, e))
         start == q.page * q.perpage
         size == IF Len(M) - start < 0 THEN 0
                 ELSE IF Len(M) - start > q.perpage THEN q.perpage
                 ELSE Len(M) - start
     IN  /\ ~resp.raised
         /\ Len(resp.objs) = size
         /\ \A k \in 1 .. size :
              /\ resp.objs[k] \in Range(M)
              /\ Cardinality({i \in 1 .. Len(M) : GoesBefore(q, M[i], resp.objs[k])})
                   <= start + k - 1
              /\ Cardinality({i \in 1 .. Len(M) :
                                ~GoesBefore(q, resp.objs[k], M[i])})
                   >= start + k
         /\ \A k, l \in 1 .. size :
              k < l => /\ resp.objs[k].id # resp.objs[l].id
                       /\ ~GoesBefore(q, resp.objs[l], resp.objs[k])

C10_Witness ==
  /\ resp.op = "search" /\ resp.arg.sort = "n"
  /\ resp.arg.order = "desc" /\ resp.arg.perpage = 1 /\ resp.arg.page = 2
  /\ DOMAIN resp.arg.filter = {}
  /\ Len(store) = 3
  /\ [i \in 1 .. 3 |-> store[i].n] = <<1, 2, 0>>
  /\ Len(resp.objs) = 1 /\ resp.objs[1].n = 0

\* C11 as stated: a not-like filter with one pattern answers with exactly
\* the live entities whose text does not match the pattern, for every
\* pattern, one that matches no stored entity included.
C11_NotLikeOnePattern ==
  IsSearch({"s_not_like"}) /\ ~IsList(resp.arg.filter.s_not_like)
  => resp.objs =
       SelectSeq(store, LAMBDA e : ~Like(resp.arg.filter.s_not_like.v, e.s))

\* the texts a list lists
Listed(raw) == {raw.v[i].v : i \in 1 .. Len(raw.v)}

IsLiteral(text) == \A i \in 1 .. Len(text) : text[i] # "%"

\* C12: over a list, like and equal answer with exactly the entities that
\* match at least one listed value, and not like and not equal leave out
\* exactly the entities that match every listed value, so that a list of
\* two distinct literal values answers with every live entity.
C12_ListCombination ==
  \A key \in StringKeys :
    IsSearch({key}) /\ IsList(resp.arg.filter[key])
    => LET listed == Listed(resp.arg.filter[key])
           Hit(p, e) == IF key \in {"s_like", "s_not_like"}
                        THEN Like(p, e.s) ELSE p = e.s
       IN  /\ key \in {"s_like", "s_equal"}
              => resp.objs =
                   SelectSeq(store, LAMBDA e : \E p \in listed : Hit(p, e))
           /\ key \in {"s_not_like", "s_not_equal"}
              => /\ resp.objs =
                      SelectSeq(store, LAMBDA e : ~\A p \in listed : Hit(p, e))
                 /\ Cardinality(listed) = 2 /\ (\A p \in listed : IsLiteral(p))
                    => resp.objs = store

C12_Witness ==
  /\ IsSearch({"s_not_like"})
  /\ resp.arg.filter.s_not_like = List(<<foo, bar>>)
  /\ {store[i].s : i \in 1 .. Len(store)} = {foo.v, bar.v, baz.v}
  /\ Len(resp.objs) = 3

\* the remote origins the helper passes as valid
ValidOrigins == {remote_origin1, remote_origin2}

\* C13: a with_ remote origin filter given valid origins only answers with
\* exactly the live entities whose origin is one of them; given any
\* invalid value, beside valid origins or not, it answers with no entity.
C13_WithOrigin ==
  IsSearch({"with_origin"})
  => LET given == Range(Values(resp.arg.filter.with_origin))
     IN  resp.objs =
           IF given \subseteq ValidOrigins
           THEN SelectSeq(store, LAMBDA e : Text(e.origin) \in given)
           ELSE <<>>

C13_Witness ==
  /\ IsSearch({"with_origin"})
  /\ resp.arg.filter.with_origin
       = List(invalid_remote_origins \o <<remote_origin1>>)
  /\ \E i \in 1 .. Len(store) : Text(store[i].origin) = remote_origin1
  /\ resp.objs = <<>>

\* C14: a without_ remote origin filter answers with exactly the live
\* entities whose origin differs from every valid origin listed, invalid
\* entries beside a valid origin being dropped; given values that are all
\* invalid it answers with no entity.
C14_WithoutOrigin ==
  IsSearch({"without_origin"})
  => LET given == Range(Values(resp.arg.filter.without_origin))
         valid == given \cap ValidOrigins
     IN  resp.objs =
           IF valid # {}
           THEN SelectSeq(store, LAMBDA e : Text(e.origin) \notin valid)
           ELSE <<>>

C14_Witness ==
  /\ IsSearch({"without_origin"})
  /\ resp.arg.filter.without_origin
       = List(invalid_remote_origins \o <<remote_origin1>>)
  /\ Len(store) = 3
  /\ Len(resp.objs) = 1
  /\ Text(resp.objs[1].origin) = remote_origin2

\* bit i of a number
Bit(x, i) == (x \div 2 ^ i) % 2

BitPositions == 0 .. 3

\* every bit of v is set in s / no bit of v is set in s
AllSet(s, v) == \A i \in BitPositions : Bit(v, i) = 1 => Bit(s, i) = 1
NoneSet(s, v) == \A i \in BitPositions : Bit(v, i) = 1 => Bit(s, i) = 0

IsSingleBit(v) == \E i \in BitPositions : v = 2 ^ i

BitsClaim(without_too) ==
  /\ IsSearch({"with_bits"}) /\ resp.arg.filter.with_bits.t = "int"
     => resp.objs =
          SelectSeq(store, LAMBDA e : AllSet(e.bits, resp.arg.filter.with_bits.v))
  /\ /\ IsSearch({"without_bits"}) /\ resp.arg.filter.without_bits.t = "int"
     /\ without_too \/ IsSingleBit(resp.arg.filter.without_bits.v)
     => LET v == resp.arg.filter.without_bits.v
        IN  /\ resp.objs = SelectSeq(store, LAMBDA e : ~AllSet(e.bits, v))
            /\ resp.objs = SelectSeq(store, LAMBDA e : NoneSet(e.bits, v))

\* C15 as stated: for every valid value v, without_group_bits = v answers
\* with exactly the entities with_group_bits = v does not answer with,
\* which are those with (s & v) == 0.
C15_AsStated == BitsClaim(TRUE)

\* C15: for every valid value v, with_group_bits = v answers with exactly
\* the live entities with (s & v) == v; for every valid value v of a single
\* bit, without_group_bits = v answers with exactly the live entities that
\* with_group_bits = v does not answer with, those with (s & v) == 0.
C15_Bits == BitsClaim(FALSE)

C15_Witness ==
  /\ IsSearch({"without_bits"})
  /\ resp.arg.filter.without_bits = Int_(group1_bit)
  /\ {store[i].bits : i \in 1 .. Len(store)}
       = {group1_bit, group2_bit, group1_and_group3_bits}
  /\ Len(resp.objs) = 1
  /\ resp.objs[1].bits = group2_bit

\* what count(), get of every id and every search answer on a store
Observed(st) ==
  [ count |-> Len(st),
    get |-> [raw \in ReadIds |->
               IF IsValidId(raw) THEN Lookup(st, ParseId(raw)) ELSE <<>>],
    search |-> [q \in CrudQueries |-> SearchResult(st, q)] ]

====
